---- MODULE Spec2Model ----
(***************************************************************************)
(* pj: a width-aware JSON pretty-printer (src/main.go).                    *)
(*                                                                         *)
(* Text is a sequence of one-character strings, so len() of the Go code is *)
(* Len() here (the alphabet is ASCII: one byte per character).             *)
(* A number is kept as sign and magnitude in tenths, so that 3.7 and -0.4  *)
(* (and the float64 negative zero) exist and the two number renderers of   *)
(* the code can differ.                                                    *)
(***************************************************************************)
EXTENDS Integers, Sequences, FiniteSets, TLC

VARIABLES
    input,      \* the bytes of the input stream (main.go:24-32)
    width,      \* *width, the -width flag (main.go:16)
    indent,     \* *indent, the -indent flag (main.go:17)
    sortKeys,   \* *sortKeys, the -sort_keys flag (main.go:18)
    pc,         \* position of main / encodeJSON
    v,          \* main's decoded value (main.go:44)
    d,          \* encodeJSON's rendered bytes (main.go:55)
    r,          \* encodeJSON's remaining count (main.go:60)
    output,     \* the bytes the sink has accepted so far
    prev,       \* the bytes rendered by the previous run
    level,      \* formatIndent's level argument (direct calls)
    additional  \* formatIndent's additional argument (direct calls)

vars == <<input, width, indent, sortKeys, pc, v, d, r, output, prev, level, additional>>

(***************************************************************************)
(* Bounds of the model.                                                    *)
(***************************************************************************)
\* the -width flag ranges over 0..MaxWidth
MaxWidth == 12
\* the -indent flag ranges over 0..MaxIndent
MaxIndent == 1
\* a sink accepts any part of a rendering of at most MaxPartialLen bytes; of
\* a longer one it accepts nothing or everything
MaxPartialLen == 4
\* direct calls of formatIndent pass a level in 0..MaxLevel
MaxLevel == 1
\* direct calls of formatIndent pass an additional in 0..MaxAdditional
MaxAdditional == 1
\* input documents nest arrays and objects MaxDepth deep around a scalar or
\* an empty container
MaxDepth == 2

(***************************************************************************)
(* Text helpers.                                                           *)
(***************************************************************************)
Repeat(c, n) == [k \in 1..n |-> c]

RECURSIVE Join(_, _)
Join(bits, sep) ==
    IF Len(bits) = 0 THEN <<>>
    ELSE IF Len(bits) = 1 THEN bits[1]
    ELSE bits[1] \o sep \o Join(Tail(bits), sep)

DigitChar(n) == <<"0", "1", "2", "3", "4", "5", "6", "7", "8", "9">>[n + 1]

RECURSIVE Digits(_)
Digits(n) == IF n < 10 THEN <<DigitChar(n)>> ELSE Digits(n \div 10) \o <<DigitChar(n % 10)>>

\* byte value of a character; the keys of the input documents are made of
\* these three
Byte(c) ==
    CASE c = "\"" -> 34
      [] c = "a" -> 97
      [] c = "b" -> 98
      [] OTHER -> 0

(***************************************************************************)
(* Values, as encoding/json decodes them into interface{}.                 *)
(***************************************************************************)
Nil == [t |-> "nil"]
Bool(b) == [t |-> "bool", b |-> b]
Float(neg, tenths) == [t |-> "float64", neg |-> neg, mag |-> tenths]
String(s) == [t |-> "string", s |-> s]
Array(a) == [t |-> "array", a |-> a]
Map(m) == [t |-> "map", m |-> m]

\* json.Marshal of a string: quoted, with quote and backslash escaped
EscapeChar(c) == IF c = "\"" \/ c = "\\" THEN <<"\\", c>> ELSE <<c>>

RECURSIVE Escape(_)
Escape(s) == IF Len(s) = 0 THEN <<>> ELSE EscapeChar(s[1]) \o Escape(Tail(s))

MarshalString(s) == <<"\"">> \o Escape(s) \o <<"\"">>

MarshalBool(b) == IF b THEN <<"t", "r", "u", "e">> ELSE <<"f", "a", "l", "s", "e">>

Sign(neg) == IF neg THEN <<"-">> ELSE <<>>

\* json.Marshal of a float64: shortest decimal that round-trips
MarshalFloat(x) ==
    Sign(x.neg) \o Digits(x.mag \div 10)
        \o (IF x.mag % 10 = 0 THEN <<>> ELSE <<".", DigitChar(x.mag % 10)>>)

\* round to nearest integer, ties to even (strconv's rounding of an exact decimal)
RoundHalfEven(tenths) ==
    LET q == tenths \div 10
        f == tenths % 10
    IN  IF f > 5 \/ (f = 5 /\ q % 2 = 1) THEN q + 1 ELSE q

\* fmt.Sprintf("%.f", x)
SprintfF0(x) == Sign(x.neg) \o Digits(RoundHalfEven(x.mag))

NullText == <<"n", "u", "l", "l">>

\* json.Marshal(v) for the scalars formatOneLine hands it
Marshal(x) ==
    CASE x.t = "string" -> MarshalString(x.s)
      [] x.t = "bool" -> MarshalBool(x.b)
      [] x.t = "float64" -> MarshalFloat(x)

(***************************************************************************)
(* Key order of a map.                                                     *)
(***************************************************************************)
RECURSIVE StringLess(_, _)
StringLess(s1, s2) ==
    IF Len(s1) = 0 THEN Len(s2) > 0
    ELSE IF Len(s2) = 0 THEN FALSE
    ELSE IF Byte(s1[1]) # Byte(s2[1]) THEN Byte(s1[1]) < Byte(s2[1])
    ELSE StringLess(Tail(s1), Tail(s2))

\* every sequence that lists each element of S once
RECURSIVE Orders(_)
Orders(S) ==
    IF S = {} THEN {<<>>}
    ELSE UNION {{<<k>> \o rest : rest \in Orders(S \ {k})} : k \in S}

\* sort.Strings
RECURSIVE SortStrings(_)
SortStrings(S) ==
    IF S = {} THEN <<>>
    ELSE LET k == CHOOSE x \in S : \A y \in S \ {x} : StringLess(x, y)
         IN  <<k>> \o SortStrings(S \ {k})

\* the key slices "for k := range m" (an unspecified order) followed by the
\* optional sort.Strings can produce
RangeKeys(m) == IF sortKeys THEN {SortStrings(DOMAIN m)} ELSE Orders(DOMAIN m)

\* every sequence that takes its i-th element from sets[i]
RECURSIVE Choices(_)
Choices(sets) ==
    IF Len(sets) = 0 THEN {<<>>}
    ELSE {<<x>> \o rest : x \in sets[1], rest \in Choices(Tail(sets))}

(***************************************************************************)
(* The one-line renderer.  Each operator yields the set of texts the call  *)
(* can return: more than one only through the order of a map's range.      *)
(***************************************************************************)
RECURSIVE formatOneLine(_)
RECURSIVE formatArrayOneLine(_)
RECURSIVE formatObjectOneLine(_)

formatOneLine(x) ==
    CASE x.t = "nil" -> {NullText}
      [] x.t \in {"string", "float64", "bool"} -> {Marshal(x)}
      [] x.t = "array" -> formatArrayOneLine(x.a)
      [] x.t = "map" -> formatObjectOneLine(x.m)

formatArrayOneLine(a) ==
    {<<"[">> \o Join(bits, <<",", " ">>) \o <<"]">> :
        bits \in Choices([i \in 1..Len(a) |-> formatOneLine(a[i])])}

formatObjectOneLine(m) ==
    UNION {
        {<<"{">> \o Join(bits, <<",", " ">>) \o <<"}">> :
            bits \in Choices([i \in 1..Len(keys) |->
                {MarshalString(keys[i]) \o <<":", " ">> \o dd :
                    dd \in formatOneLine(m[keys[i]])}])}
        : keys \in RangeKeys(m)}

(***************************************************************************)
(* The width-aware renderer.                                               *)
(***************************************************************************)
RECURSIVE formatIndent(_, _, _, _)
RECURSIVE formatArray(_, _, _)
RECURSIVE formatObject(_, _, _)

\* CompactOrBlock with the width test made strict (< for <=)
CompactOrBlockStrict(x, w, lvl, add, cands) ==
    {dd \in cands : lvl * indent + add + Len(dd) < w}
        \cup (IF \E dd \in cands : ~(lvl * indent + add + Len(dd) < w)
              THEN IF x.t = "array" THEN formatArray(x.a, w, lvl)
                   ELSE formatObject(x.m, w, lvl)
              ELSE {})

\* main.go:84-96, given the candidates cands of formatOneLine: the ones
\* that fit the width are returned, the others give way to the block
CompactOrBlock(x, w, lvl, add, cands) ==
    {dd \in cands : lvl * indent + add + Len(dd) <= w}
        \cup (IF \E dd \in cands : ~(lvl * indent + add + Len(dd) <= w)
              THEN IF x.t = "array" THEN formatArray(x.a, w, lvl)
                   ELSE formatObject(x.m, w, lvl)
              ELSE {})

formatIndent(x, w, lvl, add) ==
    CASE x.t = "nil" -> {NullText}
      [] x.t \in {"string", "bool"} -> {Marshal(x)}
      [] x.t = "float64" -> {SprintfF0(x)}
      [] x.t \in {"array", "map"} -> CompactOrBlock(x, w, lvl, add, formatOneLine(x))

\* formatArray with a loop that stops one element early
formatArraySkipsLast(a, w, lvl) ==
    LET j == IF Len(a) > 0 THEN Len(a) - 1 ELSE 0
        bit(i, dd) == Repeat(" ", (lvl + 1) * indent) \o dd
                        \o (IF i < j - 1 THEN <<",">> ELSE <<>>)
    IN  {Join(<<(<<"[">>)>> \o [k \in 1..j |-> bit(k - 1, ds[k])]
                \o <<Repeat(" ", lvl * indent) \o <<"]">> >>, <<"\n">>) :
            ds \in Choices([k \in 1..j |-> formatIndent(a[k], w, lvl + 1, 0)])}

formatArray(a, w, lvl) ==
    LET j == Len(a)
        \* i is the 0-based index of the Go loop
        bit(i, dd) == Repeat(" ", (lvl + 1) * indent) \o dd
                        \o (IF i < j - 1 THEN <<",">> ELSE <<>>)
    IN  {Join(<<(<<"[">>)>> \o [k \in 1..j |-> bit(k - 1, ds[k])]
                \o <<Repeat(" ", lvl * indent) \o <<"]">> >>, <<"\n">>) :
            ds \in Choices([k \in 1..j |-> formatIndent(a[k], w, lvl + 1, 0)])}

\* formatObject whose trailing i++ takes effect before the comma test
formatObjectCountsTwice(m, w, lvl) ==
    LET j == Cardinality(DOMAIN m)
        bit(i, kp, dd) == Repeat(" ", (lvl + 1) * indent) \o kp \o <<":", " ">> \o dd
                            \o (IF i + 1 < j - 1 THEN <<",">> ELSE <<>>)
    IN  UNION {
            {Join(<<(<<"{">>)>>
                    \o [k \in 1..Len(keys) |-> bit(k - 1, MarshalString(keys[k]), ds[k])]
                    \o <<Repeat(" ", lvl * indent) \o <<"}">> >>, <<"\n">>) :
                ds \in Choices([k \in 1..Len(keys) |->
                        formatIndent(m[keys[k]], w, lvl + 1,
                                     Len(MarshalString(keys[k])) + 2)])}
            : keys \in RangeKeys(m)}

\* formatObject that passes additional 0 for an entry's value
formatObjectNoAdditional(m, w, lvl) ==
    LET j == Cardinality(DOMAIN m)
        bit(i, kp, dd) == Repeat(" ", (lvl + 1) * indent) \o kp \o <<":", " ">> \o dd
                            \o (IF i < j - 1 THEN <<",">> ELSE <<>>)
    IN  UNION {
            {Join(<<(<<"{">>)>>
                    \o [k \in 1..Len(keys) |-> bit(k - 1, MarshalString(keys[k]), ds[k])]
                    \o <<Repeat(" ", lvl * indent) \o <<"}">> >>, <<"\n">>) :
                ds \in Choices([k \in 1..Len(keys) |->
                        formatIndent(m[keys[k]], w, lvl + 1, 0)])}
            : keys \in RangeKeys(m)}

formatObject(m, w, lvl) ==
    LET j == Cardinality(DOMAIN m)
        \* i is the range index; the body's trailing i++ is overwritten by
        \* the next iteration's assignment, so it plays no part
        bit(i, kp, dd) == Repeat(" ", (lvl + 1) * indent) \o kp \o <<":", " ">> \o dd
                            \o (IF i < j - 1 THEN <<",">> ELSE <<>>)
    IN  UNION {
            {Join(<<(<<"{">>)>>
                    \o [k \in 1..Len(keys) |-> bit(k - 1, MarshalString(keys[k]), ds[k])]
                    \o <<Repeat(" ", lvl * indent) \o <<"}">> >>, <<"\n">>) :
                ds \in Choices([k \in 1..Len(keys) |->
                        formatIndent(m[keys[k]], w, lvl + 1,
                                     Len(MarshalString(keys[k])) + 2)])}
            : keys \in RangeKeys(m)}

(***************************************************************************)
(* The decoder: json.NewDecoder(input).Decode(&v).  ParseValue reads one   *)
(* JSON value from text t at index i and yields [ok, x, i]: whether the    *)
(* text is well formed so far, the value, and the index after it.  An      *)
(* object is first read as its members in text order (tag "object").       *)
(***************************************************************************)
At(t, i) == IF i >= 1 /\ i <= Len(t) THEN t[i] ELSE "EOF"

Ok(x, i) == [ok |-> TRUE, x |-> x, i |-> i]
Fail == [ok |-> FALSE, x |-> Nil, i |-> 0]

Object(e) == [t |-> "object", e |-> e]

IsDigit(c) == c \in {"0", "1", "2", "3", "4", "5", "6", "7", "8", "9"}
DigitVal(c) == CHOOSE n \in 0..9 : DigitChar(n) = c

RECURSIVE SkipWs(_, _)
SkipWs(t, i) == IF At(t, i) \in {" ", "\n"} THEN SkipWs(t, i + 1) ELSE i

ParseLiteral(t, i, lit, x) ==
    IF i + Len(lit) - 1 <= Len(t) /\ SubSeq(t, i, i + Len(lit) - 1) = lit
    THEN Ok(x, i + Len(lit))
    ELSE Fail

\* the characters of a string literal after its opening quote
RECURSIVE ScanString(_, _, _)
ScanString(t, i, acc) ==
    LET c == At(t, i)
    IN  CASE c = "EOF" -> Fail
          [] c = "\"" -> Ok(acc, i + 1)
          [] c = "\\" ->
                IF At(t, i + 1) \in {"\"", "\\"}
                THEN ScanString(t, i + 2, Append(acc, At(t, i + 1)))
                ELSE Fail
          [] OTHER -> ScanString(t, i + 1, Append(acc, c))

\* the digits from index i on: their value and the index after them
RECURSIVE ScanDigits(_, _, _)
ScanDigits(t, i, n) ==
    IF IsDigit(At(t, i)) THEN ScanDigits(t, i + 1, 10 * n + DigitVal(At(t, i)))
    ELSE [n |-> n, i |-> i]

\* the number whose integer part int = [n, i] was read from index s on:
\* an optional fraction of one digit follows
NumberAfterInt(t, neg, s, int) ==
    IF int.i = s THEN Fail
    ELSE IF At(t, int.i) = "."
    THEN IF IsDigit(At(t, int.i + 1)) /\ ~IsDigit(At(t, int.i + 2))
         THEN Ok(Float(neg, 10 * int.n + DigitVal(At(t, int.i + 1))), int.i + 2)
         ELSE Fail
    ELSE Ok(Float(neg, 10 * int.n), int.i)

\* -? (0 | [1-9][0-9]*) (. [0-9])? ; a float64 in tenths
ParseNumber(t, i) ==
    LET neg == At(t, i) = "-"
        s == IF neg THEN i + 1 ELSE i
    IN  NumberAfterInt(t, neg, s,
            IF At(t, s) = "0" THEN [n |-> 0, i |-> s + 1] ELSE ScanDigits(t, s, 0))

RECURSIVE ParseValue(_, _)
RECURSIVE ParseElements(_, _, _)
RECURSIVE ParseMembers(_, _, _)

StringValue(s) == IF s.ok THEN Ok(String(s.x), s.i) ELSE Fail

\* the value that starts at index j, which holds no white space
ParseAt(t, j) ==
    CASE At(t, j) = "n" -> ParseLiteral(t, j, NullText, Nil)
      [] At(t, j) = "t" -> ParseLiteral(t, j, MarshalBool(TRUE), Bool(TRUE))
      [] At(t, j) = "f" -> ParseLiteral(t, j, MarshalBool(FALSE), Bool(FALSE))
      [] At(t, j) = "\"" -> StringValue(ScanString(t, j + 1, <<>>))
      [] At(t, j) = "-" \/ IsDigit(At(t, j)) -> ParseNumber(t, j)
      [] At(t, j) = "[" ->
            IF At(t, SkipWs(t, j + 1)) = "]"
            THEN Ok(Array(<<>>), SkipWs(t, j + 1) + 1)
            ELSE ParseElements(t, j + 1, <<>>)
      [] At(t, j) = "{" ->
            IF At(t, SkipWs(t, j + 1)) = "}"
            THEN Ok(Object(<<>>), SkipWs(t, j + 1) + 1)
            ELSE ParseMembers(t, j + 1, <<>>)
      [] OTHER -> Fail

ParseValue(t, i) == ParseAt(t, SkipWs(t, i))

\* after the elements all, at index j: a comma and more elements, or the end
ElementsNext(t, j, all) ==
    CASE At(t, j) = "," -> ParseElements(t, j + 1, all)
      [] At(t, j) = "]" -> Ok(Array(all), j + 1)
      [] OTHER -> Fail

AfterElement(t, e, acc) ==
    IF e.ok THEN ElementsNext(t, SkipWs(t, e.i), Append(acc, e.x)) ELSE Fail

ParseElements(t, i, acc) == AfterElement(t, ParseValue(t, i), acc)

\* after the members all, at index j: a comma and more members, or the end
MembersNext(t, j, all) ==
    CASE At(t, j) = "," -> ParseMembers(t, j + 1, all)
      [] At(t, j) = "}" -> Ok(Object(all), j + 1)
      [] OTHER -> Fail

AfterMember(t, k, e, acc) ==
    IF e.ok THEN MembersNext(t, SkipWs(t, e.i), Append(acc, [k |-> k, x |-> e.x])) ELSE Fail

\* the key was read; c is the index of the colon
AfterKey(t, key, c, acc) ==
    IF key.ok /\ At(t, c) = ":" THEN AfterMember(t, key.x, ParseValue(t, c + 1), acc) ELSE Fail

MemberAt(t, key, acc) == AfterKey(t, key, SkipWs(t, key.i), acc)

ParseMembers(t, i, acc) ==
    IF At(t, SkipWs(t, i)) = "\""
    THEN MemberAt(t, ScanString(t, SkipWs(t, i) + 1, <<>>), acc)
    ELSE Fail

\* the value Decode stores: an object becomes a map[string]interface{}, which
\* keeps no order and, of members with one key, the last
RECURSIVE ToGo(_)
ToGo(x) ==
    CASE x.t = "array" -> Array([i \in 1..Len(x.a) |-> ToGo(x.a[i])])
      [] x.t = "object" ->
            Map([k \in {x.e[i].k : i \in 1..Len(x.e)} |->
                    LET last == CHOOSE i \in 1..Len(x.e) :
                                    /\ x.e[i].k = k
                                    /\ \A i2 \in (i + 1)..Len(x.e) : x.e[i2].k # k
                    IN  ToGo(x.e[last].x)])
      [] OTHER -> x

Decoded(p) == IF p.ok THEN [ok |-> TRUE, x |-> ToGo(p.x)] ELSE [ok |-> FALSE, x |-> Nil]

Decode(t) == Decoded(ParseValue(t, 1))

(***************************************************************************)
(* Input documents: the scalars, the empty containers, and arrays and      *)
(* objects nested MaxDepth deep.  Src writes a document as input text.     *)
(***************************************************************************)
One == Float(FALSE, 10)

Scalars == {Nil, One, Float(FALSE, 37), Float(TRUE, 4), String(<<"a", "\"">>)}

Base == Scalars \cup {Array(<<>>), Object(<<>>)}

Wrap(S) ==
    {Array(<<x, One>>) : x \in S}
        \cup {Object(<<[k |-> <<"b">>, x |-> x], [k |-> <<"\"">>, x |-> One]>>) : x \in S}

RECURSIVE DocsOfDepth(_)
DocsOfDepth(n) == IF n = 0 THEN Base ELSE Base \cup Wrap(DocsOfDepth(n - 1))

Docs == {Bool(TRUE), Bool(FALSE)} \cup DocsOfDepth(MaxDepth)

RECURSIVE Src(_)
Src(x) ==
    CASE x.t = "nil" -> NullText
      [] x.t \in {"string", "float64", "bool"} -> Marshal(x)
      [] x.t = "array" -> <<"[">> \o Join([i \in 1..Len(x.a) |-> Src(x.a[i])], <<",">>) \o <<"]">>
      [] x.t = "object" ->
            <<"{">> \o Join([i \in 1..Len(x.e) |->
                                MarshalString(x.e[i].k) \o <<":">> \o Src(x.e[i].x)], <<",">>)
                \o <<"}">>

(***************************************************************************)
(* The program: main decodes the input, encodeJSON renders the value and   *)
(* writes it to a sink that honours io.Writer's contract.                  *)
(***************************************************************************)
Init ==
    /\ input \in {Src(x) : x \in Docs}
    /\ width \in 0..MaxWidth
    /\ indent \in 0..MaxIndent
    /\ sortKeys \in BOOLEAN
    /\ pc = "start"
    /\ v = Nil
    /\ d = <<>>
    /\ r = 0
    /\ output = <<>>
    /\ prev = <<>>
    /\ level = 0
    /\ additional = 0

\* main.go:44-47
DecodeInput ==
    /\ pc = "start"
    /\ \E p \in {Decode(input)} :
            IF p.ok THEN v' = p.x /\ pc' = "decoded"
            ELSE v' = Nil /\ pc' = "panic"
    /\ UNCHANGED <<input, width, indent, sortKeys, d, r, output, prev, level, additional>>

\* main.go:49, 55-60
Render ==
    /\ pc = "decoded"
    /\ d' \in formatIndent(v, width, 0, 0)
    /\ r' = Len(d')
    /\ pc' = "write"
    /\ UNCHANGED <<input, width, indent, sortKeys, v, output, prev, level, additional>>

\* main.go:61-68: one iteration; the sink accepts n of the bytes of d and
\* reports an error or not
Write(n, err) ==
    /\ pc = "write"
    /\ r > 0
    /\ n \in {0, Len(d)} \/ Len(d) <= MaxPartialLen
    /\ output' = output \o SubSeq(d, 1, n)
    /\ IF err THEN pc' = "panic" /\ r' = r
       ELSE pc' = pc /\ r' = r - n
    /\ UNCHANGED <<input, width, indent, sortKeys, v, d, prev, level, additional>>

\* main.go:61, 70
Return ==
    /\ pc = "write"
    /\ r <= 0
    /\ pc' = "done"
    /\ UNCHANGED <<input, width, indent, sortKeys, v, d, r, output, prev, level, additional>>

\* the program is run again, with the same flags, on what the sink holds
Rerun ==
    /\ pc = "done"
    /\ input' = output
    /\ prev' = d
    /\ pc' = "start"
    /\ v' = Nil
    /\ d' = <<>>
    /\ r' = 0
    /\ output' = <<>>
    /\ UNCHANGED <<width, indent, sortKeys, level, additional>>

\* io.Writer's contract: a Write that accepts fewer bytes than it was given
\* returns an error
Conforming(n, err) == err \/ n = Len(d)

Next ==
    \/ DecodeInput
    \/ Render
    \/ \E n \in 0..Len(d), err \in BOOLEAN : Conforming(n, err) /\ Write(n, err)
    \/ Return

Spec == Init /\ [][Next]_vars

(***************************************************************************)
(* Runs in a row: each run after the first reads what the run before it    *)
(* wrote.                                                                  *)
(***************************************************************************)
NextRerun ==
    \/ DecodeInput
    \/ Render
    \/ \E n \in 0..Len(d), err \in BOOLEAN : Conforming(n, err) /\ Write(n, err)
    \/ Return
    \/ Rerun

SpecRerun == Init /\ [][NextRerun]_vars

(***************************************************************************)
(* One run with the default flags and a sink that may break io.Writer's    *)
(* contract: it may accept part of the bytes and report no error.          *)
(***************************************************************************)
DefaultWidth == 80
DefaultIndent == 2

InitSink ==
    /\ input \in {Src(x) : x \in Docs}
    /\ width = DefaultWidth
    /\ indent = DefaultIndent
    /\ sortKeys \in BOOLEAN
    /\ pc = "start"
    /\ v = Nil
    /\ d = <<>>
    /\ r = 0
    /\ output = <<>>
    /\ prev = <<>>
    /\ level = 0
    /\ additional = 0

NextSink ==
    \/ DecodeInput
    \/ Render
    \/ \E n \in 0..Len(d), err \in BOOLEAN : Write(n, err)
    \/ Return

SpecSink == InitSink /\ [][NextSink]_vars

(***************************************************************************)
(* formatIndent called directly, at any level and additional width.        *)
(***************************************************************************)
InitCall ==
    /\ v \in {ToGo(x) : x \in Docs}
    /\ width \in 0..MaxWidth
    /\ indent \in 0..MaxIndent
    /\ sortKeys \in BOOLEAN
    /\ level \in 0..MaxLevel
    /\ additional \in 0..MaxAdditional
    /\ pc = "call"
    /\ input = <<>>
    /\ d = <<>>
    /\ r = 0
    /\ output = <<>>
    /\ prev = <<>>

\* main.go:73
CallFormatIndent ==
    /\ pc = "call"
    /\ d' \in formatIndent(v, width, level, additional)
    /\ pc' = "returned"
    /\ UNCHANGED <<input, width, indent, sortKeys, v, r, output, prev, level, additional>>

NextCall == CallFormatIndent

SpecCall == InitCall /\ [][NextCall]_vars

(***************************************************************************)
(* Reading a rendered text back: its lines, and what a line holds.         *)
(***************************************************************************)
HasNewline(t) == \E i \in 1..Len(t) : t[i] = "\n"

\* the lines of t: the pieces between its newlines
Lines(t) ==
    LET brk == {0, Len(t) + 1} \cup {i \in 1..Len(t) : t[i] = "\n"}
        next(i) == CHOOSE j \in brk : j > i /\ \A k \in (i + 1)..(j - 1) : k \notin brk
    IN  {SubSeq(t, i + 1, next(i) - 1) : i \in brk \ {Len(t) + 1}}

LeadingSpaces(t) ==
    CHOOSE i \in 0..Len(t) : (\A k \in 1..i : t[k] = " ") /\ At(t, i + 1) # " "

StripComma(t) ==
    IF Len(t) > 0 /\ t[Len(t)] = "," THEN SubSeq(t, 1, Len(t) - 1) ELSE t

\* the index at which the value of a line starts: after the indentation
\* and, when there is one, the key and its ": "
AfterKeyPrefix(t, i, s) ==
    IF s.ok /\ At(t, s.i) = ":" /\ At(t, s.i + 1) = " " THEN s.i + 2 ELSE i

ValueStartFrom(t, i) ==
    AfterKeyPrefix(t, i, IF At(t, i) = "\"" THEN ScanString(t, i + 1, <<>>) ELSE Fail)

ValueStart(t) == ValueStartFrom(t, LeadingSpaces(t) + 1)

HasKey(t) == ValueStart(t) > LeadingSpaces(t) + 1

IsCompound(x) == x.t \in {"array", "object", "map"}

\* the value a line holds when it holds one whole value (up to a trailing
\* comma), else Fail
WholeValue(body, p) == IF p.ok /\ p.i = Len(body) + 1 THEN p ELSE Fail

ValueFrom(body, s) ==
    IF At(body, s) \in {" ", "EOF", "]", "}"} THEN Fail
    ELSE WholeValue(body, ParseAt(body, s))

LineValueOf(body) == ValueFrom(body, ValueStart(body))

LineValue(t) == LineValueOf(StripComma(t))

\* a line of indentation, an optional key, one bracket and an optional comma
BracketBody(body) ==
    /\ Len(body) > 0
    /\ body[Len(body)] \in {"[", "]", "{", "}"}
    /\ ValueStart(body) = Len(body)

IsBracketLine(t) == BracketBody(StripComma(t))

\* a line of indentation, an optional key, one scalar literal and an optional comma
ScalarResult(p) == p.ok /\ ~IsCompound(p.x)
IsScalarLine(t) == ScalarResult(LineValue(t))

\* a line that carries the one-line rendering of an array or object
CompoundResult(p) == p.ok /\ IsCompound(p.x)
IsCompactLine(t) == CompoundResult(LineValue(t))

RECURSIVE AllIntegral(_)
AllIntegral(x) ==
    CASE x.t = "float64" -> x.mag % 10 = 0
      [] x.t = "array" -> \A i \in 1..Len(x.a) : AllIntegral(x.a[i])
      [] x.t = "object" -> \A i \in 1..Len(x.e) : AllIntegral(x.e[i].x)
      [] OTHER -> TRUE

RECURSIVE KeysSorted(_)
KeysSorted(x) ==
    CASE x.t = "array" -> \A i \in 1..Len(x.a) : KeysSorted(x.a[i])
      [] x.t = "object" ->
            /\ \A i \in 1..Len(x.e) : KeysSorted(x.e[i].x)
            /\ \A i \in 1..(Len(x.e) - 1) : ~StringLess(x.e[i + 1].k, x.e[i].k)
      [] OTHER -> TRUE

\* a document with its scalars blanked: what is left is the nesting and the
\* keys of every object in text order
RECURSIVE Skeleton(_)
Skeleton(x) ==
    CASE x.t = "array" -> Array([i \in 1..Len(x.a) |-> Skeleton(x.a[i])])
      [] x.t = "object" ->
            Object([i \in 1..Len(x.e) |-> [k |-> x.e[i].k, x |-> Skeleton(x.e[i].x)]])
      [] OTHER -> Nil

IsEmptyContainerLine(t) ==
    /\ IsCompactLine(t)
    /\ LineValue(t).x \in {Array(<<>>), Object(<<>>)}

(***************************************************************************)
(* C1: every line of the rendered text is at most width long, unless it    *)
(* holds only indentation, an optional key, one scalar or one bracket, and *)
(* an optional comma.  A line that holds an empty [] or {} in place of the *)
(* scalar is let through as well, so that a violation is a line carrying   *)
(* the one-line rendering of a non-empty array or object.                  *)
(***************************************************************************)
C1_WidthRespect ==
    pc = "write" =>
        \A t \in Lines(d) :
            \/ Len(t) <= width
            \/ IsBracketLine(t)
            \/ IsScalarLine(t)
            \/ IsEmptyContainerLine(t)

(***************************************************************************)
(* C2: a run whose input is the rendering of the previous run renders the  *)
(* same bytes again.                                                       *)
(***************************************************************************)
C2_Idempotent ==
    (pc = "write" /\ prev # <<>> /\ input = prev) => d = input

(***************************************************************************)
(* C3: every number of the rendered text is an integer: no renderer emits  *)
(* a decimal point.                                                        *)
(***************************************************************************)
C3_IntegerNumbers ==
    pc = "write" => AllIntegral(ParseValue(d, 1).x)

(***************************************************************************)
(* C4: with sort_keys the keys of every object of the rendered text are in *)
(* non-decreasing byte order; without it they are in the order of the      *)
(* input text.                                                             *)
(***************************************************************************)
C4_KeyOrdering ==
    pc = "write" =>
        IF sortKeys THEN KeysSorted(ParseValue(d, 1).x)
        ELSE Skeleton(ParseValue(d, 1).x) = Skeleton(ParseValue(input, 1).x)

(***************************************************************************)
(* C5: an empty array or object is rendered as the two characters [] or {} *)
(* with nothing between the brackets, at every width.                      *)
(***************************************************************************)
C5_EmptyContainers ==
    pc = "write" =>
        \A i \in 1..Len(d) :
            (d[i] \in {"[", "{"} /\ At(d, SkipWs(d, i + 1)) \in {"]", "}"})
                => SkipWs(d, i + 1) = i + 1

(***************************************************************************)
(* C6: when encodeJSON returns nil the sink holds exactly the rendered     *)
(* bytes, whatever the sink did with each Write.                           *)
(***************************************************************************)
C6_Delivery ==
    pc = "done" => output = d

Opener(x) == IF x.t = "array" THEN "[" ELSE "{"
Closer(x) == IF x.t = "array" THEN "]" ELSE "}"

\* t opens with the bracket on a line of its own and closes with the
\* bracket alone on a line indented to the level
IsBlockOf(t, x) ==
    LET tail == <<"\n">> \o Repeat(" ", level * indent) \o <<Closer(x)>>
    IN  /\ Len(t) >= 1 + Len(tail)
        /\ t[1] = Opener(x)
        /\ t[2] = "\n"
        /\ SubSeq(t, Len(t) - Len(tail) + 1, Len(t)) = tail

\* d is what the claim says of a compound with one-line candidates cands
DecidedAmong(cands) ==
    \A cand \in cands :
        IF level * indent + additional + Len(cand) <= width
        THEN d \in cands /\ ~HasNewline(d)
        ELSE d \notin cands /\ IsBlockOf(d, v)

\* p, the parse of d, is one whole scalar of the type of v
IsLiteralOf(p) == p.ok /\ p.i = Len(d) + 1 /\ p.x.t = v.t

(***************************************************************************)
(* C7: formatIndent returns the one-line candidate, with no newline in it, *)
(* exactly when level*indent + additional + its length <= width, and the   *)
(* multi-line block otherwise; a scalar is returned as its one literal     *)
(* whatever the width.                                                     *)
(***************************************************************************)
C7_CompactOrBlock ==
    pc = "returned" =>
        IF IsCompound(v) THEN DecidedAmong(formatOneLine(v))
        ELSE ~HasNewline(d) /\ IsLiteralOf(ParseValue(d, 1))

\* a compound below the root, after additional characters, whose candidate
\* fills the width to the last column
C7_Witness ==
    /\ pc = "returned"
    /\ IsCompound(v)
    /\ level >= 1
    /\ indent >= 1
    /\ additional >= 1
    /\ Len(d) > 2
    /\ ~HasNewline(d)
    /\ level * indent + additional + Len(d) = width

RECURSIVE NoRepeatedKey(_)
NoRepeatedKey(x) ==
    CASE x.t = "array" -> \A i \in 1..Len(x.a) : NoRepeatedKey(x.a[i])
      [] x.t = "object" ->
            /\ \A i \in 1..Len(x.e) : NoRepeatedKey(x.e[i].x)
            /\ \A i, j \in 1..Len(x.e) : x.e[i].k = x.e[j].k => i = j
      [] OTHER -> TRUE

RECURSIVE SameShape(_, _)
SameShape(x, y) ==
    /\ x.t = y.t
    /\ CASE x.t = "array" ->
                /\ Len(x.a) = Len(y.a)
                /\ \A i \in 1..Len(x.a) : SameShape(x.a[i], y.a[i])
         [] x.t = "map" ->
                /\ DOMAIN x.m = DOMAIN y.m
                /\ \A k \in DOMAIN x.m : SameShape(x.m[k], y.m[k])
         [] x.t = "float64" ->
                x.neg = y.neg /\ RoundHalfEven(x.mag) = RoundHalfEven(y.mag)
         [] OTHER -> x = y

\* p, the parse of d, is one whole value of the shape of v
ParsesToShape(p) ==
    /\ p.ok
    /\ p.i = Len(d) + 1
    /\ NoRepeatedKey(p.x)
    /\ SameShape(ToGo(p.x), v)

(***************************************************************************)
(* C8: the rendered text parses to a tree of the same shape as the value:  *)
(* arrays with the same elements in the same order, objects with the same  *)
(* keys, each once, mapped to the corresponding values, and scalars equal  *)
(* up to the rounding of numbers.                                          *)
(***************************************************************************)
C8_RoundTrip == pc = "write" => ParsesToShape(ParseValue(d, 1))

\* a block rendering of an array that holds an object and a rounded number
C8_Witness ==
    /\ pc = "write"
    /\ HasNewline(d)
    /\ v.t = "array"
    /\ Len(v.a) = 2
    /\ v.a[1].t = "map"
    /\ \E k \in DOMAIN v.a[1].m : v.a[1].m[k] = Float(FALSE, 37)
    /\ ~AllIntegral(ParseValue(input, 1).x)
    /\ AllIntegral(ParseValue(d, 1).x)

RECURSIVE ChunksOk(_, _, _, _, _)

\* the text ends at index e with a newline, level*indent spaces and the
\* closing bracket
ClosesAt(t, e, x) ==
    /\ At(t, e) = "\n"
    /\ \A q \in (e + 1)..(e + level * indent) : At(t, q) = " "
    /\ At(t, e + level * indent + 1) = Closer(x)
    /\ Len(t) = e + level * indent + 1

\* p is the parse of chunk k's value, which starts at index vs
ChunkValueOk(t, vs, p, k, n, x) ==
    /\ At(t, vs) \notin {" ", "\n", "EOF"}
    /\ p.ok
    /\ IF k < n
       THEN At(t, p.i) = "," /\ At(t, p.i + 1) = "\n" /\ ChunksOk(t, p.i + 2, k + 1, n, x)
       ELSE ClosesAt(t, p.i, x)

\* key is the scan of chunk k's key, which starts at index s
ChunkKeyOk(t, s, key, k, n, x) ==
    /\ At(t, s) = "\""
    /\ key.ok
    /\ At(t, key.i) = ":"
    /\ At(t, key.i + 1) = " "
    /\ ChunkValueOk(t, key.i + 2, ParseAt(t, key.i + 2), k, n, x)

\* chunk k of n starts at index s of t, after its indentation
ChunkAt(t, s, k, n, x) ==
    /\ At(t, s) # " "
    /\ IF x.t = "map" THEN ChunkKeyOk(t, s, ScanString(t, s + 1, <<>>), k, n, x)
       ELSE ChunkValueOk(t, s, ParseAt(t, s), k, n, x)

\* chunk k of n starts at index pos of t, the start of a line
ChunksOk(t, pos, k, n, x) ==
    /\ \A q \in pos..(pos + (level + 1) * indent - 1) : At(t, q) = " "
    /\ ChunkAt(t, pos + (level + 1) * indent, k, n, x)

Size(x) == IF x.t = "array" THEN Len(x.a) ELSE Cardinality(DOMAIN x.m)

(***************************************************************************)
(* C9: the block rendering of an array or object of n >= 1 elements at     *)
(* level L is the opening bracket, one chunk per element and the closing   *)
(* bracket, joined by single newlines; each chunk starts with exactly      *)
(* (L+1)*indent spaces, each chunk but the last ends with a comma, and the *)
(* closing bracket follows exactly L*indent spaces and ends the text.      *)
(***************************************************************************)
C9_BlockLayout ==
    (pc = "returned" /\ IsCompound(v) /\ HasNewline(d) /\ Size(v) >= 1) =>
        /\ d[1] = Opener(v)
        /\ d[2] = "\n"
        /\ ChunksOk(d, 3, 1, Size(v), v)

\* the block of a two-entry object below the root, one entry a block itself
C9_Witness ==
    /\ pc = "returned"
    /\ v.t = "map"
    /\ Size(v) = 2
    /\ level >= 1
    /\ indent >= 1
    /\ HasNewline(d)
    /\ \E t \in Lines(d) : HasKey(t) /\ IsBracketLine(t)

\* a compound child of the root's block, with one-line candidates cands, is
\* on one line of lines, after prefix, exactly when one level down and after
\* add characters its candidate fits the width
ChildDecided(lines, prefix, add, cands) ==
    \A cand \in cands :
        (indent + add + Len(cand) <= width)
            <=> \E c \in cands, t \in lines :
                    StripComma(t) = Repeat(" ", indent) \o prefix \o c

RootChildrenDecided(lines) ==
    IF v.t = "array"
    THEN \A i \in 1..Len(v.a) :
            IsCompound(v.a[i]) => ChildDecided(lines, <<>>, 0, formatOneLine(v.a[i]))
    ELSE \A k \in DOMAIN v.m :
            IsCompound(v.m[k]) =>
                ChildDecided(lines, MarshalString(k) \o <<":", " ">>,
                             Len(MarshalString(k)) + 2, formatOneLine(v.m[k]))

(***************************************************************************)
(* C10: the root is rendered at level 0 after 0 characters, an array       *)
(* element one level down after 0 characters, and an object entry's value  *)
(* one level down after the quoted key and its ": ": a compound emitted on *)
(* one line ends within width, counted from the start of its line through  *)
(* its closing bracket, and a compound child of the root's block is on one *)
(* line exactly when it fits after that indentation and key.               *)
(***************************************************************************)
C10_ContextPropagation ==
    pc = "write" =>
        /\ (IsCompound(v) /\ ~HasNewline(d)) => Len(d) <= width
        /\ \A t \in Lines(d) : IsCompactLine(t) => Len(StripComma(t)) <= width
        /\ (IsCompound(v) /\ HasNewline(d)) => RootChildrenDecided(Lines(d))

\* a non-empty compound on one line after a key, ending in the last column
C10_Witness ==
    /\ pc = "write"
    /\ HasNewline(d)
    /\ indent >= 1
    /\ \E t \in Lines(d) :
            /\ HasKey(t)
            /\ IsCompactLine(t)
            /\ LineValue(t).x \notin {Array(<<>>), Object(<<>>)}
            /\ Len(StripComma(t)) = width

====
